---- MODULE Spec2Model ----
(***************************************************************************)
(* A model of tera's context abstraction.                                  *)
(*                                                                         *)
(*   - src/src/context_trait.rs: the ContextTrait contract (is_truthy,     *)
(*     render_capacity_hint, render, pointer, context_iter, get_type, len) *)
(*     and its implementations for the built-in kinds;                     *)
(*   - src/tera-derive/src/lib.rs: content_derive, the derive macro that   *)
(*     emits a hashed field dispatch for a struct.                         *)
(*                                                                         *)
(* Text is a sequence of byte codes ("a" is <<97>>, "." is <<46>>).        *)
(* A value of any kind is a record [tag, n, s, keys, kids]:                *)
(*   tag   the concrete kind,                                              *)
(*   n     the number / the boolean (1 or 0),                              *)
(*   s     the text of a string / the payload of an Err,                   *)
(*   keys  the keys of a map or pair, in iteration order,                  *)
(*   kids  the contained values (items, map values, the wrapped value).    *)
(***************************************************************************)
EXTENDS Integers, Sequences, FiniteSets, TLC

VARIABLES recv,    \* the value a contract operation is called on (&self)
          called,  \* the contract operation that was called last
          arg,     \* the key given to pointer
          ret,     \* what the operation returned
          sink,    \* the bytes the sink has received
          item,    \* the struct handed to #[derive(Content)]
          output,  \* what content_derive returned for it
          looked,  \* the generated operation called last, with its input
          gret     \* what the generated operation returned

vars == <<recv, called, arg, ret, sink, item, output, looked, gret>>

viewVars == <<recv, called, arg, ret, sink>>
genVars == <<item, output, looked, gret>>

\* ------------------------------------------------------------------ bounds
\* Longest sequence / JSON array of mixed items.
MaxSeqLen == 2
\* Longest sequence of unit items (long enough for a two-digit index).
MaxLongSeq == 11
\* Deepest nesting of wrappers and indirections around a value.
MaxNest == 2
\* Most fields of a struct handed to the derive macro.
MaxFields == 2

\* -------------------------------------------------------------------- text
Dot == <<46>>
Empty == <<>>
TextTrue == <<116, 114, 117, 101>>
TextFalse == <<102, 97, 108, 115, 101>>
TextNull == <<110, 117, 108, 108>>

RECURSIVE Digits(_)
Digits(n) == IF n < 10 THEN <<48 + n>> ELSE Digits(n \div 10) \o <<48 + (n % 10)>>

\* Display of an integer: index.to_string(), write!(write, "{}", self).
to_string(n) == IF n < 0 THEN <<45>> \o Digits(0 - n) ELSE Digits(n)

\* Ord of str: byte-wise lexicographic.
KeyLess(a, b) ==
    \E i \in 1..(Len(a) + 1) :
        /\ \A j \in 1..(i - 1) : j <= Len(b) /\ a[j] = b[j]
        /\ \/ i > Len(a) /\ i <= Len(b)
           \/ i <= Len(a) /\ i <= Len(b) /\ a[i] < b[i]

\* ------------------------------------------------------------------ values
Val(tag, n, s, keys, kids) == [tag |-> tag, n |-> n, s |-> s, keys |-> keys, kids |-> kids]

Num(n) == Val("Num", n, <<>>, <<>>, <<>>)
BoolV(b) == Val("Bool", IF b THEN 1 ELSE 0, <<>>, <<>>, <<>>)
Str(s) == Val("Str", 0, s, <<>>, <<>>)
Unit == Val("Unit", 0, <<>>, <<>>, <<>>)
JNull == Val("JNull", 0, <<>>, <<>>, <<>>)
JBool(b) == Val("JBool", IF b THEN 1 ELSE 0, <<>>, <<>>, <<>>)
JNumber(n) == Val("JNumber", n, <<>>, <<>>, <<>>)
JString(s) == Val("JString", 0, s, <<>>, <<>>)
JArray(items) == Val("JArray", 0, <<>>, <<>>, items)
JObject(ks, vs) == Val("JObject", 0, <<>>, ks, vs)
SomeV(v) == Val("Some", 0, <<>>, <<>>, <<v>>)
NoneV == Val("None", 0, <<>>, <<>>, <<>>)
OkV(v) == Val("Ok", 0, <<>>, <<>>, <<v>>)
ErrV(payload) == Val("Err", 0, payload, <<>>, <<>>)
SeqV(items) == Val("Seq", 0, <<>>, <<>>, items)
PairV(k, v) == Val("Pair", 0, <<>>, <<k>>, <<v>>)
HashMapV(ks, vs) == Val("HashMap", 0, <<>>, ks, vs)
BTreeMapV(ks, vs) == Val("BTreeMap", 0, <<>>, ks, vs)
PtrV(kind, v) == Val(kind, 0, <<>>, <<>>, <<v>>)

\* The four pointer_type instances of the forwarding impl.
PointerTypes == {"Ref", "Box", "Rc", "Arc"}
JsonTags == {"JNull", "JBool", "JNumber", "JString", "JArray", "JObject"}

Inner(v) == v.kids[1]

\* ----------------------------------------------------------- the sink
\* std::io::Write behind write!: a sink that accepts everything, or one that
\* rejects every write. Writing no bytes never reaches the sink.
Write(w, bytes) ==
    IF bytes = <<>> \/ w
    THEN [ok |-> TRUE, bytes |-> bytes]
    ELSE [ok |-> FALSE, bytes |-> <<>>]

\* ------------------------------------------------------ the contract
RECURSIVE Sum(_)
Sum(ns) == IF ns = <<>> THEN 0 ELSE Head(ns) + Sum(Tail(ns))

RECURSIVE Join(_)
Join(parts) == IF parts = <<>> THEN <<>> ELSE Head(parts) \o Join(Tail(parts))

\* impl Display for serde_json::Value (compact JSON), behind write!(write, "{}", self).
RECURSIVE JsonText(_)
JsonText(v) ==
    CASE v.tag = "JNull" -> TextNull
      [] v.tag = "JBool" -> IF v.n = 1 THEN TextTrue ELSE TextFalse
      [] v.tag = "JNumber" -> to_string(v.n)
      [] v.tag = "JString" -> <<34>> \o v.s \o <<34>>
      [] v.tag = "JArray" ->
            <<91>> \o Join([i \in 1..Len(v.kids) |->
                        (IF i > 1 THEN <<44>> ELSE <<>>) \o JsonText(v.kids[i])]) \o <<93>>
      [] v.tag = "JObject" ->
            <<123>> \o Join([i \in 1..Len(v.kids) |->
                        (IF i > 1 THEN <<44>> ELSE <<>>) \o <<34>> \o v.keys[i] \o <<34, 58>>
                            \o JsonText(v.kids[i])]) \o <<125>>

RECURSIVE is_truthy(_)
is_truthy(v) ==
    CASE v.tag = "Num" -> v.n # 0
      [] v.tag = "Bool" -> v.n = 1
      [] v.tag = "Str" -> Len(v.s) # 0
      [] v.tag = "Unit" -> FALSE
      [] v.tag = "JNumber" -> v.n # 0
      [] v.tag = "JBool" -> v.n = 1
      [] v.tag = "JNull" -> FALSE
      [] v.tag = "JString" -> Len(v.s) # 0
      [] v.tag \in {"JArray", "JObject"} -> Len(v.kids) # 0
      [] v.tag = "Some" -> TRUE
      [] v.tag = "None" -> FALSE
      [] v.tag = "Ok" -> TRUE
      [] v.tag = "Err" -> FALSE
      [] v.tag = "Seq" -> Len(v.kids) # 0
      [] v.tag = "Pair" -> is_truthy(Inner(v))
      [] v.tag \in {"HashMap", "BTreeMap"} -> Len(v.kids) # 0
      [] v.tag \in PointerTypes -> is_truthy(Inner(v))

RECURSIVE render_capacity_hint(_)
render_capacity_hint(v) ==
    CASE v.tag = "Num" -> 5
      [] v.tag = "Bool" -> 5
      [] v.tag = "Str" -> Len(v.s)
      [] v.tag = "Unit" -> 0
      [] v.tag = "JNumber" -> IF v.n # 0 THEN 5 ELSE 0
      [] v.tag = "JBool" -> 5
      [] v.tag = "JNull" -> 0
      [] v.tag = "JString" -> Len(v.s)
      [] v.tag = "JArray" ->
            Sum([i \in 1..Len(v.kids) |-> render_capacity_hint(v.kids[i])])
      [] v.tag = "JObject" -> 0
      [] v.tag \in {"Some", "Ok"} -> render_capacity_hint(Inner(v))
      [] v.tag \in {"None", "Err"} -> 0
      [] v.tag \in {"Seq", "HashMap", "BTreeMap"} ->
            Sum([i \in 1..Len(v.kids) |-> render_capacity_hint(v.kids[i])])
      [] v.tag = "Pair" -> render_capacity_hint(Inner(v))
      [] v.tag \in PointerTypes -> render_capacity_hint(Inner(v))

\* render(&self, write): [ok, bytes], the io::Result and the bytes the sink received.
RECURSIVE render(_, _)

\* Option<T>::render
OptionRender(v, w) ==
    IF v.tag = "Some" THEN render(Inner(v), w) ELSE [ok |-> TRUE, bytes |-> <<>>]

\* A Result<T, U>::render that writes the Debug text of the error.
ResultRenderWritesPayload(v, w) ==
    IF v.tag = "Ok" THEN render(Inner(v), w) ELSE Write(w, v.s)

\* Result<T, U>::render
ResultRender(v, w) ==
    IF v.tag = "Ok" THEN render(Inner(v), w) ELSE [ok |-> TRUE, bytes |-> <<>>]

render(v, w) ==
    CASE v.tag = "Num" -> Write(w, to_string(v.n))
      [] v.tag = "Bool" -> Write(w, IF v.n = 1 THEN TextTrue ELSE TextFalse)
      [] v.tag = "Str" -> Write(w, v.s)
      [] v.tag \in JsonTags -> Write(w, JsonText(v))
      [] v.tag \in {"Some", "None"} -> OptionRender(v, w)
      [] v.tag \in {"Ok", "Err"} -> ResultRender(v, w)
      [] v.tag \in PointerTypes -> render(Inner(v), w)
      [] OTHER -> [ok |-> TRUE, bytes |-> <<>>]

\* Option<Arc<&dyn ContextTrait>>
NoView == [some |-> FALSE, view |-> Unit]
View(v) == [some |-> TRUE, view |-> v]

\* ContextTrait::pointer, the provided method every kind but BTreeMap keeps.
DefaultPointer(v, key) ==
    IF key = Dot \/ Len(key) = 0 THEN View(v) ELSE NoView

\* BTreeMap::pointer: self.get(key).
BTreeMapPointer(v, key) ==
    IF \E i \in 1..Len(v.keys) : v.keys[i] = key
    THEN View(v.kids[CHOOSE i \in 1..Len(v.keys) : v.keys[i] = key])
    ELSE NoView

pointer(v, key) ==
    IF v.tag = "BTreeMap" THEN BTreeMapPointer(v, key) ELSE DefaultPointer(v, key)

\* Option<Box<dyn Iterator<Item = (String, &dyn ContextTrait)>>>
NoIter == [some |-> FALSE, pairs |-> <<>>]
Iter(pairs) == [some |-> TRUE, pairs |-> pairs]

\* An array_type::context_iter that counts the items from one.
ArrayContextIterFromOne(v) ==
    Iter([i \in 1..Len(v.kids) |-> [name |-> to_string(i), view |-> v.kids[i]]])

\* array_type::context_iter: self.into_iter().enumerate(), the index as a string.
ArrayContextIter(v) ==
    Iter([i \in 1..Len(v.kids) |-> [name |-> to_string(i - 1), view |-> v.kids[i]]])

RECURSIVE context_iter(_)
context_iter(v) ==
    CASE v.tag = "JObject" ->
            Iter([i \in 1..Len(v.kids) |-> [name |-> v.keys[i], view |-> v.kids[i]]])
      [] v.tag \in {"Some", "Ok"} -> context_iter(Inner(v))
      [] v.tag \in {"None", "Err"} -> NoIter
      [] v.tag = "Seq" -> ArrayContextIter(v)
      [] v.tag \in {"HashMap", "BTreeMap"} ->
            Iter([i \in 1..Len(v.kids) |-> [name |-> v.keys[i], view |-> v.kids[i]]])
      [] v.tag \in PointerTypes -> context_iter(Inner(v))
      [] OTHER -> NoIter

RECURSIVE get_type(_)
get_type(v) ==
    CASE v.tag = "Num" -> "Number"
      [] v.tag = "Bool" -> "Bool"
      [] v.tag = "Str" -> "String"
      [] v.tag = "Unit" -> "Null"
      [] v.tag = "JNumber" -> "Number"
      [] v.tag = "JBool" -> "Bool"
      [] v.tag = "JNull" -> "Null"
      [] v.tag = "JString" -> "String"
      [] v.tag = "JArray" -> "Array"
      [] v.tag = "JObject" -> "Object"
      [] v.tag \in {"Some", "Ok"} -> get_type(Inner(v))
      [] v.tag \in {"None", "Err"} -> "Null"
      [] v.tag = "Seq" -> "Array"
      [] v.tag = "Pair" -> get_type(Inner(v))
      [] v.tag \in {"HashMap", "BTreeMap"} -> "Object"
      [] v.tag \in PointerTypes -> get_type(Inner(v))

RECURSIVE len(_)
len(v) ==
    CASE v.tag = "Num" -> 1
      [] v.tag = "Bool" -> 1
      [] v.tag = "Str" -> Len(v.s)
      [] v.tag = "Unit" -> 0
      [] v.tag = "JNumber" -> 1
      [] v.tag = "JBool" -> 1
      [] v.tag = "JNull" -> 0
      [] v.tag = "JString" -> Len(v.s)
      [] v.tag \in {"JArray", "JObject"} -> Len(v.kids)
      [] v.tag \in {"Some", "Ok"} -> len(Inner(v))
      [] v.tag \in {"None", "Err"} -> 0
      [] v.tag = "Seq" -> Len(v.kids)
      [] v.tag = "Pair" -> 1
      [] v.tag \in {"HashMap", "BTreeMap"} -> Len(v.kids)
      [] v.tag \in PointerTypes -> len(Inner(v))

\* ------------------------------------------------- the values explored
Leaves ==
    {Num(0), Num(3), Num(0 - 5), BoolV(TRUE), BoolV(FALSE), Str(<<>>), Str(<<120>>), Unit,
     JNull, JBool(TRUE), JNumber(0), JNumber(3), JString(<<120>>)}

SeqsOf(S, n) == UNION {[1..k -> S] : k \in 0..n}

\* Vec<T> and [T].
Sequences ==
    {SeqV(items) : items \in SeqsOf({Num(0), Num(3), Str(<<120>>)}, MaxSeqLen)}
        \cup {SeqV([i \in 1..k |-> Unit]) : k \in 0..MaxLongSeq}

MapKeys == {<<97>>, <<98>>, Dot}
MapValues == {Num(3), Str(<<120>>)}

\* The orders in which the keys K can be iterated.
Orders(K) == {ks \in [1..Cardinality(K) -> K] : \A i, j \in DOMAIN ks : i # j => ks[i] # ks[j]}
IsSorted(ks) == \A i \in 1..(Len(ks) - 1) : KeyLess(ks[i], ks[i + 1])

\* A BTreeMap iterates in key order; a HashMap in an order of its own.
BTreeMaps ==
    UNION {{BTreeMapV(ks, vs) : vs \in [1..Len(ks) -> MapValues]} :
            ks \in {o \in UNION {Orders(K) : K \in SUBSET MapKeys} : IsSorted(o)}}
HashMaps ==
    UNION {{HashMapV(ks, vs) : vs \in [1..Len(ks) -> MapValues]} :
            ks \in UNION {Orders(K) : K \in SUBSET MapKeys}}

\* serde_json::Value::Array and ::Object (a map in key order).
JsonArrays == {JArray(items) : items \in SeqsOf({JNull, JNumber(3)}, MaxSeqLen)}
JsonObjects ==
    {JObject(ks, [i \in 1..Len(ks) |-> JNumber(3)]) :
        ks \in {o \in UNION {Orders(K) : K \in SUBSET {<<97>>, <<98>>}} : IsSorted(o)}}

\* (K, V)
Pairs ==
    {PairV(<<97>>, v) :
        v \in {Num(3), Str(<<>>), JArray(<<JNumber(3)>>), SeqV(<<>>), SeqV(<<Num(3)>>),
               BTreeMapV(<<<<97>>>>, <<Num(3)>>), HashMapV(<<>>, <<>>)}}

Plain == Leaves \cup Sequences \cup BTreeMaps \cup HashMaps \cup JsonArrays
            \cup JsonObjects \cup Pairs

\* The values that wrappers and indirections are put around.
Wrapped ==
    {Num(0), Num(3), Str(<<>>), Str(<<120>>), Unit, JNull, JArray(<<JNumber(3)>>),
     JObject(<<<<97>>>>, <<JNumber(3)>>),
     SeqV(<<>>), SeqV(<<Num(3), Str(<<120>>)>>), SeqV([i \in 1..MaxLongSeq |-> Unit]),
     BTreeMapV(<<>>, <<>>), BTreeMapV(<<<<97>>>>, <<Num(3)>>),
     BTreeMapV(<<Dot, <<97>>>>, <<Str(<<120>>), Num(3)>>),
     HashMapV(<<<<98>>, <<97>>>>, <<Num(3), Str(<<120>>)>>),
     PairV(<<97>>, SeqV(<<Num(3)>>))}

\* Option<T>, Result<T, U>, &T, Box<T>, Rc<T>, Arc<T> around the values of S.
Around(S) ==
    {SomeV(v) : v \in S} \cup {OkV(v) : v \in S}
        \cup {NoneV, ErrV(<<101>>)}
        \cup UNION {{PtrV(k, v) : v \in S} : k \in PointerTypes}

RECURSIVE Nested(_)
Nested(d) == IF d = 0 THEN Wrapped ELSE Around(Nested(d - 1))

Values == Plain \cup UNION {Nested(d) : d \in 1..MaxNest}

PointerKeys == {Dot, Empty, <<97>>, <<98>>, <<122>>}

\* --------------------------------------------- calls of the contract
NoRet == [b |-> FALSE, n |-> 0, ty |-> "", ok |-> TRUE, w |-> TRUE,
          some |-> FALSE, view |-> Unit, pairs |-> <<>>]

\* No struct is derived while the contract is exercised, and no value is
\* inspected while the derive macro runs.
NoItem == <<>>
NoOutput == [kind |-> "none", errors |-> <<>>, render |-> <<>>, flatten |-> <<>>, fields |-> <<>>]
NoLooked == [op |-> "none", name |-> <<>>, w |-> TRUE]
NoGret == [ok |-> TRUE, hit |-> FALSE, field |-> 0, n |-> 0, bytes |-> <<>>, asked |-> <<>>]

GenIdle == item = NoItem /\ output = NoOutput /\ looked = NoLooked /\ gret = NoGret
ViewIdle == recv = Unit /\ called = "none" /\ arg = <<>> /\ ret = NoRet /\ sink = <<>>

Init ==
    /\ recv \in Values
    /\ called = "none"
    /\ arg = <<>>
    /\ ret = NoRet
    /\ sink = <<>>
    /\ GenIdle

CallIsTruthy ==
    /\ called = "none"
    /\ called' = "is_truthy"
    /\ ret' = [NoRet EXCEPT !.b = is_truthy(recv)]
    /\ arg' = <<>> /\ sink' = <<>>
    /\ UNCHANGED <<recv, genVars>>

CallRenderCapacityHint ==
    /\ called = "none"
    /\ called' = "render_capacity_hint"
    /\ ret' = [NoRet EXCEPT !.n = render_capacity_hint(recv)]
    /\ arg' = <<>> /\ sink' = <<>>
    /\ UNCHANGED <<recv, genVars>>

CallRender ==
    \E w \in BOOLEAN :
        LET r == render(recv, w) IN
        /\ called = "none"
        /\ called' = "render"
        /\ ret' = [NoRet EXCEPT !.ok = r.ok, !.w = w]
        /\ sink' = r.bytes
        /\ arg' = <<>>
        /\ UNCHANGED <<recv, genVars>>

CallPointer ==
    \E key \in PointerKeys :
        LET r == pointer(recv, key) IN
        /\ called = "none"
        /\ called' = "pointer"
        /\ arg' = key
        /\ ret' = [NoRet EXCEPT !.some = r.some, !.view = r.view]
        /\ sink' = <<>>
        /\ UNCHANGED <<recv, genVars>>

CallContextIter ==
    LET r == context_iter(recv) IN
    /\ called = "none"
    /\ called' = "context_iter"
    /\ ret' = [NoRet EXCEPT !.some = r.some, !.pairs = r.pairs]
    /\ arg' = <<>> /\ sink' = <<>>
    /\ UNCHANGED <<recv, genVars>>

CallGetType ==
    /\ called = "none"
    /\ called' = "get_type"
    /\ ret' = [NoRet EXCEPT !.ty = get_type(recv)]
    /\ arg' = <<>> /\ sink' = <<>>
    /\ UNCHANGED <<recv, genVars>>

CallLen ==
    /\ called = "none"
    /\ called' = "len"
    /\ ret' = [NoRet EXCEPT !.n = len(recv)]
    /\ arg' = <<>> /\ sink' = <<>>
    /\ UNCHANGED <<recv, genVars>>

\* The caller walks on into the view a pointer call returned, or into one of
\* the views an iterator yielded.
Descend ==
    /\ \/ called = "pointer" /\ ret.some /\ recv' = ret.view
       \/ called = "context_iter" /\ ret.some
            /\ \E i \in 1..Len(ret.pairs) : recv' = ret.pairs[i].view
    /\ called' = "none"
    /\ arg' = <<>> /\ ret' = NoRet /\ sink' = <<>>
    /\ UNCHANGED genVars

\* The caller has used what the call returned and is ready for the next call.
Return ==
    /\ called # "none"
    /\ called' = "none"
    /\ arg' = <<>> /\ ret' = NoRet /\ sink' = <<>>
    /\ UNCHANGED <<recv, genVars>>

Next ==
    \/ CallIsTruthy
    \/ CallRenderCapacityHint
    \/ CallRender
    \/ CallPointer
    \/ CallContextIter
    \/ CallGetType
    \/ CallLen
    \/ Descend
    \/ Return

Spec == Init /\ [][Next]_vars

\* ------------------------------------------------------ the fingerprint
\* A u64 is its eight bytes, least significant first, so that no intermediate
\* value leaves the range of the arithmetic.
RECURSIVE Xor(_, _)
Xor(a, b) ==
    IF a = 0 /\ b = 0 THEN 0
    ELSE (((a % 2) + (b % 2)) % 2) + 2 * Xor(a \div 2, b \div 2)

\* h * m for a small m, modulo 2^64.
RECURSIVE MulSmall(_, _, _, _)
MulSmall(h, m, i, carry) ==
    IF i > 8 THEN <<>>
    ELSE LET p == h[i] * m + carry
         IN  <<p % 256>> \o MulSmall(h, m, i + 1, p \div 256)

\* a + b modulo 2^64.
RECURSIVE AddWrap(_, _, _, _)
AddWrap(a, b, i, carry) ==
    IF i > 8 THEN <<>>
    ELSE LET p == a[i] + b[i] + carry
         IN  <<p % 256>> \o AddWrap(a, b, i + 1, p \div 256)

\* hash.wrapping_mul(0x100000001b3): the prime is 2^40 + 0x1b3.
WrappingMulPrime(h) ==
    AddWrap(MulSmall(h, 435, 1, 0), [i \in 1..8 |-> IF i >= 6 THEN h[i - 5] ELSE 0], 1, 0)

\* FnvHasher::write: for each byte, hash ^= byte; hash = hash.wrapping_mul(prime).
RECURSIVE FnvWrite(_, _)
FnvWrite(h, bytes) ==
    IF bytes = <<>> THEN h
    ELSE FnvWrite(WrappingMulPrime([h EXCEPT ![1] = Xor(h[1], Head(bytes))]), Tail(bytes))

\* FnvHasher::default(): the offset basis 0xcbf29ce484222325.
FnvDefault == <<37, 35, 34, 132, 228, 156, 242, 203>>

\* name.hash(&mut hasher); hasher.finish(): Hash for str feeds the bytes of the
\* name and then the byte 0xff.
Fingerprint(name) == FnvWrite(FnvDefault, name \o <<255>>)

\* Ord of u64, on which Ord for Field rests.
HashLess(g, h) ==
    \E i \in 1..8 : g[i] < h[i] /\ \A j \in (i + 1)..8 : g[j] = h[j]

\* --------------------------------------------- the struct being derived
\* What ContentAttributes::try_from_attributes finds on a field: no tera
\* attribute, a parsed one, or one that does not parse. rename is <<>> or <<name>>.
NoAttributes ==
    [parsed |-> "none", skip |-> FALSE, flatten |-> FALSE, rename |-> <<>>, callback |-> FALSE]
BadAttributes == [NoAttributes EXCEPT !.parsed = "err"]
Attributes ==
    {NoAttributes, BadAttributes}
        \cup [parsed : {"some"}, skip : BOOLEAN, flatten : BOOLEAN,
              rename : {<<>>, <<<<97>>>>, <<<<99>>>>}, callback : BOOLEAN]

\* The identifiers of a named struct's fields, by position: a, b, c, ...
Ident(i) == <<96 + i>>

\* Fields::Named (ident is <<name>>), Fields::Unnamed (ident is <<>>), and the
\* unit struct, which has no fields.
Items ==
    UNION {{[i \in 1..n |-> [ident |-> IF named THEN <<Ident(i)>> ELSE <<>>, attrs |-> as[i]]] :
                as \in [1..n -> Attributes]} :
            n \in 0..MaxFields, named \in BOOLEAN}

\* ------------------------------------------------------ content_derive
Positions(it) == [i \in 1..Len(it) |-> i]

Parsed(it, i) == it[i].attrs.parsed = "some"

\* errors: the fields whose attributes did not parse.
Errors(it) == SelectSeq(Positions(it), LAMBDA i : it[i].attrs.parsed = "err")

\* flatten: the fields marked flatten, in declaration order.
FlattenList(it) == SelectSeq(Positions(it), LAMBDA i : Parsed(it, i) /\ it[i].attrs.flatten)

\* A skip that only the skip directive sets.
SkipDirectiveOnly(it, i) == Parsed(it, i) /\ it[i].attrs.skip

\* skip = true: the field has a skip directive, or a flatten directive.
Skip(it, i) == Parsed(it, i) /\ (it[i].attrs.skip \/ it[i].attrs.flatten)

\* name: the rename value, else the identifier, else the index in decimal.
Name(it, i) ==
    IF Parsed(it, i) /\ it[i].attrs.rename # <<>> THEN it[i].attrs.rename[1]
    ELSE IF it[i].ident # <<>> THEN it[i].ident[1]
    ELSE to_string(i - 1)

\* Some(Field { hash, field, callback }); field is the position of the field.
Field(it, i) ==
    [hash |-> Fingerprint(Name(it, i)), field |-> i,
     callback |-> Parsed(it, i) /\ it[i].attrs.callback]

\* The filter_map: a Field for every field that is not skipped.
Collected(it) ==
    LET kept == SelectSeq(Positions(it), LAMBDA i : ~Skip(it, i))
    IN  [k \in 1..Len(kept) |-> Field(it, kept[k])]

\* fields.sort_unstable(): some arrangement in which the hashes ascend; the
\* order of Fields that compare equal is not specified.
SortUnstable(fs) ==
    {[k \in 1..Len(fs) |-> fs[p[k]]] :
        p \in {q \in [1..Len(fs) -> 1..Len(fs)] :
                /\ \A i, j \in 1..Len(fs) : i # j => q[i] # q[j]
                /\ \A k \in 1..(Len(fs) - 1) : ~HashLess(fs[q[k + 1]].hash, fs[q[k]].hash)}}

\* A content_derive that degrades to a best effort: beside the compile errors
\* it emits the impl of the fields whose attributes parsed.
ContentDeriveBestEffort(it) ==
    {[kind |-> IF Errors(it) # <<>> THEN "errors" ELSE "impl",
      errors |-> Errors(it), render |-> sorted,
      flatten |-> FlattenList(it),
      fields |-> [k \in 1..Len(sorted) |-> sorted[k].field]] :
        sorted \in SortUnstable(
            LET kept == SelectSeq(Positions(it),
                                  LAMBDA i : ~Skip(it, i) /\ it[i].attrs.parsed # "err")
            IN  [k \in 1..Len(kept) |-> Field(it, kept[k])])}

\* The outputs content_derive can return for a struct: the compile errors, or
\* the impl (its match arms, its flatten chain, the fields its hint sums).
content_derive(it) ==
    IF Errors(it) # <<>>
    THEN {[NoOutput EXCEPT !.kind = "errors", !.errors = Errors(it)]}
    ELSE {[kind |-> "impl", errors |-> <<>>, render |-> sorted,
           flatten |-> FlattenList(it),
           fields |-> [k \in 1..Len(sorted) |-> sorted[k].field]] :
            sorted \in SortUnstable(Collected(it))}

\* ------------------------------------------------- the generated impl
\* The instance the generated code runs on. The struct derived above holds
\* "x", 3, true, ... in its plain fields; a field marked flatten holds a struct
\* of its own, which derives Content as well:
\*   field 1: { z: "p", y: 7 }    field 2: { z: "q", a: "r" }    others: { y: "s" }
\* owner is 0 for the struct derived above, else the position of the flattened
\* field whose struct it is.
PlainField(i) == IF i = 1 THEN Str(<<120>>) ELSE IF i = 2 THEN Num(3) ELSE BoolV(TRUE)

FlatIdents(i) ==
    IF i = 1 THEN <<<<122>>, <<121>>>> ELSE IF i = 2 THEN <<<<122>>, <<97>>>> ELSE <<<<121>>>>
FlatFields(i) ==
    IF i = 1 THEN <<Str(<<112>>), Num(7)>>
    ELSE IF i = 2 THEN <<Str(<<113>>), Str(<<114>>)>>
    ELSE <<Str(<<115>>)>>
FlatItem(i) ==
    [j \in 1..Len(FlatIdents(i)) |-> [ident |-> <<FlatIdents(i)[j]>>, attrs |-> NoAttributes]]

FieldOf(owner, i) == IF owner = 0 THEN PlainField(i) ELSE FlatFields(owner)[i]
\* What content_derive returns for the structs of the flattened fields (their
\* field names differ, so it is a single output each).
SubOutputs == [i \in 1..MaxFields |-> CHOOSE o \in content_derive(FlatItem(i)) : TRUE]
Sub(i) == [out |-> SubOutputs[i], owner |-> i]

\* #callback(&self.#field, encoder): a routine of the user's; here one that
\* writes "#" and then the field.
Callback(v, w) == Write(w, <<35>> \o render(v, TRUE).bytes)

Miss == [ok |-> TRUE, hit |-> FALSE, field |-> 0, bytes |-> <<>>, asked |-> <<>>]

\* The generated render: match hash { arms..., _ => Ok(flatten chain || false) }.
\* [ok, hit] is the io::Result<bool>, field the arm taken (0: none), bytes what
\* the sink received, asked the flattened fields whose render was called.
RECURSIVE GenRender(_, _, _)
RECURSIVE FlattenChain(_, _, _, _)
GenRender(inst, hash, w) ==
    LET arms == inst.out.render
        matching == {k \in 1..Len(arms) : arms[k].hash = hash}
    IN  IF matching # {}
        THEN LET arm == arms[CHOOSE k \in matching : \A m \in matching : k <= m]
                 r == IF arm.callback
                      THEN Callback(FieldOf(inst.owner, arm.field), w)
                      ELSE render(FieldOf(inst.owner, arm.field), w)
             IN  [ok |-> r.ok, hit |-> r.ok, field |-> arm.field, bytes |-> r.bytes,
                  asked |-> <<>>]
        ELSE FlattenChain(inst, hash, w, 1)

\* A flatten chain without the short circuit of ||: every flattened field is
\* asked, and the last answer stands.
FlattenChainAsksAll(inst, hash, w, k) ==
    IF k > Len(inst.out.flatten) THEN Miss
    ELSE LET f == inst.out.flatten[k]
             r == GenRender(Sub(f), hash, w)
             rest == FlattenChain(inst, hash, w, k + 1)
         IN  IF ~r.ok
             THEN [ok |-> r.ok, hit |-> r.hit, field |-> 0, bytes |-> r.bytes, asked |-> <<f>>]
             ELSE IF rest.hit \/ ~rest.ok \/ ~r.hit
             THEN [rest EXCEPT !.asked = <<f>> \o @]
             ELSE [ok |-> TRUE, hit |-> TRUE, field |-> 0, bytes |-> r.bytes,
                   asked |-> <<f>> \o rest.asked]

\* #( self.#flatten.render(write)? || )* false
FlattenChain(inst, hash, w, k) ==
    IF k > Len(inst.out.flatten) THEN Miss
    ELSE LET f == inst.out.flatten[k]
             r == GenRender(Sub(f), hash, w)
         IN  IF ~r.ok \/ r.hit
             THEN [ok |-> r.ok, hit |-> r.hit, field |-> 0, bytes |-> r.bytes, asked |-> <<f>>]
             ELSE LET rest == FlattenChain(inst, hash, w, k + 1)
                  IN  [rest EXCEPT !.asked = <<f>> \o @]

\* The generated capacity_hint: 0 #( + self.#fields.capacity_hint(tpl) )*
GenCapacityHint(inst) ==
    Sum([k \in 1..Len(inst.out.fields) |->
            render_capacity_hint(FieldOf(inst.owner, inst.out.fields[k]))])

\* ----------------------------------------------- deriving and calling
LookupNames == {<<97>>, <<98>>, <<99>>, <<121>>, <<122>>, <<48>>, <<49>>}

\* The fingerprint the caller computes of each name it looks up.
LookupHash == [name \in LookupNames |-> Fingerprint(name)]

GenInit ==
    /\ item \in Items
    /\ output = NoOutput
    /\ looked = NoLooked
    /\ gret = NoGret
    /\ ViewIdle

\* #[derive(Content)] expands.
Derive ==
    /\ output.kind = "none"
    /\ output' \in content_derive(item)
    /\ UNCHANGED <<item, looked, gret, viewVars>>

\* A lookup by name: the caller hashes the name and calls the generated render.
CallGenRender ==
    /\ output.kind = "impl"
    /\ looked.op = "none"
    /\ \E name \in LookupNames, w \in BOOLEAN :
        LET r == GenRender([out |-> output, owner |-> 0], LookupHash[name], w) IN
        /\ looked' = [op |-> "render", name |-> name, w |-> w]
        /\ gret' = [NoGret EXCEPT !.ok = r.ok, !.hit = r.hit, !.field = r.field,
                                  !.bytes = r.bytes, !.asked = r.asked]
    /\ UNCHANGED <<item, output, viewVars>>

CallGenCapacityHint ==
    /\ output.kind = "impl"
    /\ looked.op = "none"
    /\ looked' = [NoLooked EXCEPT !.op = "capacity_hint"]
    /\ gret' = [NoGret EXCEPT !.n = GenCapacityHint([out |-> output, owner |-> 0])]
    /\ UNCHANGED <<item, output, viewVars>>

\* The caller has used what the generated code returned.
GenReturn ==
    /\ looked.op # "none"
    /\ looked' = NoLooked
    /\ gret' = NoGret
    /\ UNCHANGED <<item, output, viewVars>>

GenNext ==
    \/ Derive
    \/ CallGenRender
    \/ CallGenCapacityHint
    \/ GenReturn

GenSpec == GenInit /\ [][GenNext]_vars

\* ------------------------------------------------- the contract's claims
\* The value behind any indirections.
RECURSIVE Deref(_)
Deref(v) == IF v.tag \in PointerTypes THEN Deref(Inner(v)) ELSE v

\* C1: on every kind, pointer(".") and pointer("") return a present view, and
\* the view is the receiver itself.
C1_PointerSelf ==
    (called = "pointer" /\ arg \in {Dot, Empty}) => (ret.some /\ ret.view = recv)

\* C2: every contract operation called on an indirection (&T, Box, Rc, Arc)
\* returns what the same operation returns when called on the value behind it
\* (views are compared behind their indirections).
C2_IndirectionForwards ==
    recv.tag \in PointerTypes =>
        LET v == Inner(recv) IN
        /\ called = "is_truthy" => ret.b = is_truthy(v)
        /\ called = "render_capacity_hint" => ret.n = render_capacity_hint(v)
        /\ called = "render" => (ret.ok = render(v, ret.w).ok /\ sink = render(v, ret.w).bytes)
        /\ called = "pointer" =>
              /\ ret.some = pointer(v, arg).some
              /\ ret.some => Deref(ret.view) = Deref(pointer(v, arg).view)
        /\ called = "context_iter" =>
              (ret.some = context_iter(v).some /\ ret.pairs = context_iter(v).pairs)
        /\ called = "get_type" => ret.ty = get_type(v)
        /\ called = "len" => ret.n = len(v)

\* C3: on a HashMap and on a BTreeMap, pointer(k) for a key k other than "."
\* and "" returns the view of the value stored under k, and none when the map
\* does not contain k.
C3_MapLookup ==
    (called = "pointer" /\ recv.tag \in {"HashMap", "BTreeMap"} /\ arg \notin {Dot, Empty}) =>
        IF \E i \in 1..Len(recv.keys) : recv.keys[i] = arg
        THEN /\ ret.some
             /\ \E i \in 1..Len(recv.keys) : recv.keys[i] = arg /\ ret.view = recv.kids[i]
        ELSE ~ret.some

\* C4: a value whose get_type() is Array or Object has a context_iter() that
\* is not none and yields one pair per contained element.
C4_TypeHasIter ==
    (called = "context_iter" /\ get_type(recv) \in {"Array", "Object"}) =>
        (ret.some /\ Len(ret.pairs) = len(recv))

\* An optional or fallible wrapper, or an indirection around one.
RECURSIVE WrapperKind(_)
WrapperKind(v) ==
    \/ v.tag \in {"Some", "None", "Ok", "Err"}
    \/ v.tag \in PointerTypes /\ WrapperKind(Inner(v))

\* C5: when is_truthy() of a wrapper is false, its render writes no byte to
\* the sink and returns success, whatever the sink; an Err's payload is never
\* written.
C5_FalsyWrapperRendersNothing ==
    (called = "render" /\ WrapperKind(recv) /\ ~is_truthy(recv)) =>
        (sink = <<>> /\ ret.ok)

\* A falsy wrapper behind an indirection was rendered, into either sink.
C5_Witness ==
    /\ called = "render"
    /\ recv.tag \in PointerTypes
    /\ Deref(recv).tag = "Err"
    /\ ~is_truthy(recv)

\* A sequence or a map, also behind wrappers and indirections.
RECURSIVE Container(_)
Container(v) ==
    IF v.tag \in {"Some", "Ok"} \cup PointerTypes THEN Container(Inner(v)) ELSE v

\* The number a text of decimal digits denotes.
RECURSIVE DecimalValue(_)
DecimalValue(s) ==
    IF s = <<>> THEN 0 ELSE 10 * DecimalValue(SubSeq(s, 1, Len(s) - 1)) + (s[Len(s)] - 48)

\* s is the decimal string of n: digits only, no leading zero, of value n.
IsDecimalOf(s, n) ==
    /\ Len(s) >= 1
    /\ \A i \in 1..Len(s) : s[i] \in 48..57
    /\ Len(s) > 1 => s[1] # 48
    /\ DecimalValue(s) = n

\* C6: when context_iter() of a sequence or map yields at least one pair,
\* len() is the number of pairs it yields; a sequence's names are the decimal
\* strings "0", "1", ... in index order.
C6_LenCountsPairs ==
    (/\ called = "context_iter"
     /\ Container(recv).tag \in {"Seq", "HashMap", "BTreeMap"}
     /\ ret.some
     /\ Len(ret.pairs) >= 1) =>
        /\ len(recv) = Len(ret.pairs)
        /\ Container(recv).tag = "Seq" =>
              \A i \in 1..Len(ret.pairs) : IsDecimalOf(ret.pairs[i].name, i - 1)

\* A sequence long enough for a two-digit index was iterated behind a wrapper.
C6_Witness ==
    /\ called = "context_iter"
    /\ recv.tag \in {"Some", "Ok"} \cup PointerTypes
    /\ Container(recv).tag = "Seq"
    /\ ret.some
    /\ Len(ret.pairs) > 10

\* ------------------------------------------------ the generator's claims
\* The fields that take part in the direct dispatch.
Dispatched == {i \in 1..Len(item) : ~(item[i].attrs.skip \/ item[i].attrs.flatten)}

\* What a hit on field i must write: the callback's output when the field has
\* a callback, else the field's own render.
Rendered(i, w) ==
    IF item[i].attrs.callback THEN Callback(PlainField(i), w) ELSE render(PlainField(i), w)

\* C7: a lookup by name hits field f exactly when the fingerprint of the name
\* equals the fingerprint of f's effective external name (the rename value if
\* there is one, else the declared name or the index), and a hit runs the
\* field's callback if it has one, else the field's own render.
C7_HitIffFingerprint ==
    looked.op = "render" =>
        \A f \in Dispatched :
            LET effective == IF item[f].attrs.rename # <<>> THEN item[f].attrs.rename[1]
                             ELSE IF item[f].ident # <<>> THEN item[f].ident[1]
                             ELSE to_string(f - 1)
            IN  /\ gret.field = f <=> LookupHash[looked.name] = Fingerprint(effective)
                /\ gret.field = f =>
                      (gret.ok = Rendered(f, looked.w).ok /\ gret.bytes = Rendered(f, looked.w).bytes)

\* What the flattened field at place k of the flatten list answers.
Delegated(k) == GenRender(Sub(output.flatten[k]), LookupHash[looked.name], looked.w)
Succeeds(k) == Delegated(k).ok /\ Delegated(k).hit
Fails(k) == ~Delegated(k).ok

\* C8 as stated: on a miss of the dispatch table the flattened fields are asked
\* in declaration order; the result of the first that succeeds is returned and
\* no later one is asked; if none succeeds the lookup reports no match, not an
\* error.
C8_FirstSuccessElseNoMatch ==
    (looked.op = "render" /\ gret.field = 0) =>
        LET n == Len(output.flatten) IN
        IF \E k \in 1..n : Succeeds(k)
        THEN LET first == CHOOSE k \in 1..n : Succeeds(k) /\ \A j \in 1..(k - 1) : ~Succeeds(j)
             IN  /\ gret.ok /\ gret.hit
                 /\ gret.bytes = Delegated(first).bytes
                 /\ gret.asked = SubSeq(output.flatten, 1, first)
        ELSE gret.ok /\ ~gret.hit

\* C8, amended: on a miss of the dispatch table the flattened fields are asked
\* in declaration order up to the first that succeeds or fails with an IO
\* error; that field's result (the match, or the error) is returned and no
\* later one is asked; if every flattened field reports no match, or there is
\* none, the lookup reports no match, not an error.
C8_FirstAnswerElseNoMatch ==
    (looked.op = "render" /\ gret.field = 0) =>
        LET n == Len(output.flatten) IN
        /\ \A k \in 1..n : output.flatten[k] \in 1..Len(item) /\ item[output.flatten[k]].attrs.flatten
        /\ \A k \in 1..(n - 1) : output.flatten[k] < output.flatten[k + 1]
        /\ IF \E k \in 1..n : Succeeds(k) \/ Fails(k)
           THEN LET first == CHOOSE k \in 1..n :
                                /\ Succeeds(k) \/ Fails(k)
                                /\ \A j \in 1..(k - 1) : ~(Succeeds(j) \/ Fails(j))
                IN  /\ gret.ok = Delegated(first).ok
                    /\ gret.hit = Delegated(first).hit
                    /\ gret.bytes = Delegated(first).bytes
                    /\ gret.asked = SubSeq(output.flatten, 1, first)
           ELSE /\ gret.ok /\ ~gret.hit /\ gret.bytes = <<>>
                /\ gret.asked = output.flatten

\* Two fields are flattened, the first one resolved the name and the second
\* one was not asked.
C8_Witness ==
    /\ looked.op = "render"
    /\ gret.field = 0
    /\ Len(output.flatten) = 2
    /\ gret.hit
    /\ gret.asked = <<output.flatten[1]>>

\* C9: content_derive emits no impl whose dispatch table holds two entries
\* with equal fingerprints.
C9_NoEqualFingerprints ==
    output.kind = "impl" =>
        \A i, j \in 1..Len(output.render) :
            i # j => output.render[i].hash # output.render[j].hash

\* The hint of the struct a flattened field holds.
FlattenedHint(i) == GenCapacityHint(Sub(i))

\* C10 as stated: the generated hint is the sum of the hints of all fields
\* without a skip directive, the flattened ones included.
C10_HintSumsFlattened ==
    looked.op = "capacity_hint" =>
        gret.n = Sum([i \in 1..Len(item) |->
                        IF item[i].attrs.skip THEN 0
                        ELSE IF item[i].attrs.flatten THEN FlattenedHint(i)
                        ELSE render_capacity_hint(PlainField(i))])

\* C10, amended: the generated hint is the sum of the hints of the fields that
\* have neither a skip nor a flatten directive; skipped and flattened fields
\* contribute nothing.
C10_HintSumsDispatched ==
    looked.op = "capacity_hint" =>
        gret.n = Sum([i \in 1..Len(item) |->
                        IF item[i].attrs.skip \/ item[i].attrs.flatten THEN 0
                        ELSE render_capacity_hint(PlainField(i))])

\* The hint was taken of a struct with a flattened field and a plain one.
C10_Witness ==
    /\ looked.op = "capacity_hint"
    /\ \E i, j \in 1..Len(item) :
          /\ item[i].attrs.flatten /\ ~item[i].attrs.skip
          /\ ~item[j].attrs.flatten /\ ~item[j].attrs.skip
    /\ gret.n > 0

\* The fields whose directives do not parse.
Failing == {i \in 1..Len(item) : item[i].attrs.parsed = "err"}

\* C11: when the directives of at least one field fail to parse, the output of
\* content_derive holds the diagnostics only, one per failing field in
\* declaration order, and no part of an impl (no match arm, no flatten chain,
\* no hint); when no field fails, it holds the impl and no diagnostic.
C11_ErrorsBlockImpl ==
    output.kind # "none" =>
        IF Failing # {}
        THEN /\ output.kind = "errors"
             /\ Len(output.errors) = Cardinality(Failing)
             /\ \A i \in Failing : \E k \in 1..Len(output.errors) : output.errors[k] = i
             /\ \A k \in 1..(Len(output.errors) - 1) : output.errors[k] < output.errors[k + 1]
             /\ output.render = <<>> /\ output.flatten = <<>> /\ output.fields = <<>>
             /\ ~ENABLED CallGenRender /\ ~ENABLED CallGenCapacityHint
        ELSE /\ output.kind = "impl"
             /\ output.errors = <<>>

\* A struct with a failing field and a well-formed, dispatched one was derived.
C11_Witness ==
    /\ output.kind = "errors"
    /\ \E i, j \in 1..Len(item) :
          /\ item[i].attrs.parsed = "err"
          /\ item[j].attrs.parsed # "err" /\ ~item[j].attrs.skip /\ ~item[j].attrs.flatten

====
